---- MODULE Spec2Model ----
(***************************************************************************)
(* A model of the StellAI extension layer of the scene editor: the Engine  *)
(* singleton (src/src/core/StellAI.cpp), the C interface over it           *)
(* (StellAI_Integration.cpp, src/unnamed/part_005), the AIModelManager     *)
(* registry (src/include/StellAI.hpp) and the placeholder generators.      *)
(***************************************************************************)
EXTENDS Integers, Sequences, FiniteSets, TLC

\* ------------------------------------------------------------------ bounds
\* Calls made on the Engine singleton in one behaviour.
MaxCalls == 4

\* Calls made on the AIModelManager singleton in one behaviour.
MaxRegistryCalls == 4

\* Distinct AIModel objects the callers hold shared pointers to.
NumModels == 2

\* Largest output buffer, in characters, a caller of the C interface passes.
MaxBuffer == 7

\* Largest texture handle a material map holds.
MaxTexture == 1

\* Largest number of materials loaded into the engine's material table.
MaxMaterials == 2

\* GUI events (key presses, button and menu clicks) in one run of the editor.
MaxGuiEvents == 3

\* Threads that call the AIModelManager at the same time, one call each.
NumThreads == 3

\* Capacity of the light table (MAX_LIGHTS; lights.h is outside the sources).
MaxLights == 2

\* ------------------------------------------------------------------ state
VARIABLES
    engine,     \* Engine's fields: initialized, aiEnabled, worldGen, modelGen, shaderGen
    heap,       \* the free store as the Engine uses it: live objects, counts of new/delete
    calls,      \* number of calls made so far
    last,       \* the last call: operation, argument, result, the state it started from
    models,     \* AIModelManager::models, the map from name to shared_ptr<AIModel>
    firstReg,   \* history: per name, the model of the first registerModel call
    rcalls,     \* number of calls made on the AIModelManager so far
    rlast,      \* the last call on the AIModelManager
    tg,         \* TerrainGenerator::generateTerrain in progress: its locals and position
    mg,         \* the last call of ModelGenerator::generateFromText and its result
    clast,      \* the last call of the C interface: arguments, result, buffers, generator calls
    mat,        \* the last material generation: the material table, arguments, result
    gui,        \* the editor's scene state: object table, selection, clipboard, history, lights
    gcalls,     \* number of GUI events handled so far
    glast,      \* the last GUI event: the handler and its inputs
    modelsMutex, \* AIModelManager::modelsMutex: the thread that holds it, or NoThread
    threads     \* per thread: its call on the AIModelManager and how far it has got

engineVars == <<engine, heap, calls, last>>

registryVars == <<models, firstReg, rcalls, rlast>>

terrainVars == <<tg>>

modelGenVars == <<mg>>

capiVars == <<clast>>

materialVars == <<mat>>

guiVars == <<gui, gcalls, glast>>

threadVars == <<modelsMutex, threads>>

nonEngineVars == <<registryVars, terrainVars, modelGenVars, capiVars, materialVars, guiVars, threadVars>>

nonRegistryVars == <<engineVars, terrainVars, modelGenVars, capiVars, materialVars, guiVars, threadVars>>

nonTerrainVars == <<engineVars, registryVars, modelGenVars, capiVars, materialVars, guiVars, threadVars>>

nonModelGenVars == <<engineVars, registryVars, terrainVars, capiVars, materialVars, guiVars, threadVars>>

nonCApiVars == <<engineVars, registryVars, terrainVars, modelGenVars, materialVars, guiVars, threadVars>>

nonMaterialVars == <<engineVars, registryVars, terrainVars, modelGenVars, capiVars, guiVars, threadVars>>

nonGuiVars == <<engineVars, registryVars, terrainVars, modelGenVars, capiVars, materialVars, threadVars>>

\* The threads share the AIModelManager (registryVars) and leave the rest alone.
nonThreadVars == <<engineVars, terrainVars, modelGenVars, capiVars, materialVars, guiVars>>

vars == <<engine, heap, calls, last, models, firstReg, rcalls, rlast, tg, mg, clast, mat,
          gui, gcalls, glast, modelsMutex, threads>>

\* ------------------------------------------------------------------ Engine
\* A null pointer; every object that operator new returns is numbered from 1.
nullptr == 0

\* The value recorded as the result of a function returning void.
void == "void"

\* `new T()`: a fresh live object (allocation of the empty generator classes
\* is taken to succeed).
OperatorNew(h) ==
    [heap |-> [h EXCEPT !.live = @ \cup {h.news + 1}, !.news = @ + 1],
     ptr  |-> h.news + 1]

\* `delete p`: nothing for a null pointer, the object's end otherwise;
\* deleting what is not live (a second delete) is recorded in badDelete.
OperatorDelete(h, p) ==
    IF p = nullptr THEN h
    ELSE IF p \in h.live
         THEN [h EXCEPT !.live = @ \ {p}, !.deletes = @ + 1]
         ELSE [h EXCEPT !.deletes = @ + 1, !.badDelete = TRUE]

\* Mutant of Engine_initialize: the already-initialized guard is missing.
Engine_initialize_NoGuard(e, h, enableAI) ==
    LET a1 == OperatorNew(h)
        a2 == OperatorNew(a1.heap)
        a3 == OperatorNew(a2.heap)
    IN  [engine |-> [e EXCEPT !.worldGen = a1.ptr, !.modelGen = a2.ptr,
                              !.shaderGen = a3.ptr, !.aiEnabled = enableAI,
                              !.initialized = TRUE],
         heap   |-> a3.heap,
         ret    |-> TRUE]

\* Mutant of Engine_initialize: AI is switched on whatever the argument says.
Engine_initialize_IgnoresArg(e, h, enableAI) ==
    IF e.initialized
    THEN [engine |-> e, heap |-> h, ret |-> FALSE]
    ELSE LET a1 == OperatorNew(h)
             a2 == OperatorNew(a1.heap)
             a3 == OperatorNew(a2.heap)
         IN  [engine |-> [e EXCEPT !.worldGen = a1.ptr, !.modelGen = a2.ptr,
                                   !.shaderGen = a3.ptr, !.aiEnabled = TRUE,
                                   !.initialized = TRUE],
              heap   |-> a3.heap,
              ret    |-> TRUE]

\* bool Engine::initialize(bool enableAI)
Engine_initialize(e, h, enableAI) ==
    IF e.initialized
    THEN [engine |-> e, heap |-> h, ret |-> FALSE]
    ELSE LET a1 == OperatorNew(h)
             a2 == OperatorNew(a1.heap)
             a3 == OperatorNew(a2.heap)
         IN  [engine |-> [e EXCEPT !.worldGen = a1.ptr, !.modelGen = a2.ptr,
                                   !.shaderGen = a3.ptr, !.aiEnabled = enableAI,
                                   !.initialized = TRUE],
              heap   |-> a3.heap,
              ret    |-> TRUE]

\* Mutant of Engine_shutdown: the components are deleted without the
\* initialized guard and the pointers are left as they were.
Engine_shutdown_NoGuard(e, h) ==
    LET d1 == OperatorDelete(h, e.worldGen)
        d2 == OperatorDelete(d1, e.modelGen)
        d3 == OperatorDelete(d2, e.shaderGen)
    IN  [engine |-> [e EXCEPT !.initialized = FALSE], heap |-> d3, ret |-> void]

\* void Engine::shutdown()
Engine_shutdown(e, h) ==
    IF ~e.initialized
    THEN [engine |-> e, heap |-> h, ret |-> void]
    ELSE LET d1 == OperatorDelete(h, e.worldGen)
             d2 == OperatorDelete(d1, e.modelGen)
             d3 == OperatorDelete(d2, e.shaderGen)
         IN  [engine |-> [e EXCEPT !.worldGen = nullptr, !.modelGen = nullptr,
                                   !.shaderGen = nullptr, !.initialized = FALSE],
              heap   |-> d3,
              ret    |-> void]

\* bool Engine::isInitialized() const
Engine_isInitialized(e) == e.initialized

\* bool Engine::isAIEnabled() const
Engine_isAIEnabled(e) == e.aiEnabled

\* bool StellAI_IsAvailable(): the body is `return true;`
StellAI_IsAvailable_Result(e) == TRUE

\* The record kept of a call.
CallRecord(op, arg, ret) ==
    [op |-> op, arg |-> arg, ret |-> ret,
     pre |-> engine, preHeap |-> heap, prevOp |-> last.op]

\* Engine::getInstance().initialize(enableAI), called directly
initialize(enableAI) ==
    /\ calls < MaxCalls
    /\ LET r == Engine_initialize(engine, heap, enableAI)
       IN  /\ engine' = r.engine
           /\ heap' = r.heap
           /\ last' = CallRecord("initialize", enableAI, r.ret)
    /\ calls' = calls + 1
    /\ UNCHANGED nonEngineVars

\* Engine::getInstance().shutdown(), called directly
shutdown ==
    /\ calls < MaxCalls
    /\ LET r == Engine_shutdown(engine, heap)
       IN  /\ engine' = r.engine
           /\ heap' = r.heap
           /\ last' = CallRecord("shutdown", void, r.ret)
    /\ calls' = calls + 1
    /\ UNCHANGED nonEngineVars

\* Engine::getInstance().isInitialized()
isInitialized ==
    /\ calls < MaxCalls
    /\ last' = CallRecord("isInitialized", void, Engine_isInitialized(engine))
    /\ calls' = calls + 1
    /\ UNCHANGED <<engine, heap>>
    /\ UNCHANGED nonEngineVars

\* Engine::getInstance().isAIEnabled()
isAIEnabled ==
    /\ calls < MaxCalls
    /\ last' = CallRecord("isAIEnabled", void, Engine_isAIEnabled(engine))
    /\ calls' = calls + 1
    /\ UNCHANGED <<engine, heap>>
    /\ UNCHANGED nonEngineVars

\* bool StellAI_Initialize(bool enableAI)
StellAI_Initialize(enableAI) ==
    /\ calls < MaxCalls
    /\ LET r == Engine_initialize(engine, heap, enableAI)
       IN  /\ engine' = r.engine
           /\ heap' = r.heap
           /\ last' = CallRecord("StellAI_Initialize", enableAI, r.ret)
    /\ calls' = calls + 1
    /\ UNCHANGED nonEngineVars

\* void StellAI_Shutdown()
StellAI_Shutdown ==
    /\ calls < MaxCalls
    /\ LET r == Engine_shutdown(engine, heap)
       IN  /\ engine' = r.engine
           /\ heap' = r.heap
           /\ last' = CallRecord("StellAI_Shutdown", void, r.ret)
    /\ calls' = calls + 1
    /\ UNCHANGED nonEngineVars

\* bool StellAI_IsAvailable()
StellAI_IsAvailable ==
    /\ calls < MaxCalls
    /\ last' = CallRecord("StellAI_IsAvailable", void, StellAI_IsAvailable_Result(engine))
    /\ calls' = calls + 1
    /\ UNCHANGED <<engine, heap>>
    /\ UNCHANGED nonEngineVars

\* bool StellAI_IsAIEnabled()
StellAI_IsAIEnabled ==
    /\ calls < MaxCalls
    /\ last' = CallRecord("StellAI_IsAIEnabled", void, Engine_isAIEnabled(engine))
    /\ calls' = calls + 1
    /\ UNCHANGED <<engine, heap>>
    /\ UNCHANGED nonEngineVars

\* Engine() : initialized(false), aiEnabled(false); no component allocated yet.
EngineInit ==
    /\ engine = [initialized |-> FALSE, aiEnabled |-> FALSE,
                 worldGen |-> nullptr, modelGen |-> nullptr, shaderGen |-> nullptr]
    /\ heap = [live |-> {}, news |-> 0, deletes |-> 0, badDelete |-> FALSE]
    /\ calls = 0
    /\ last = [op |-> "none", arg |-> void, ret |-> void,
               pre |-> engine, preHeap |-> heap, prevOp |-> "none"]

\* ---------------------------------------------------------- AIModelManager
\* The names the callers register and look up (the empty name is a key too).
Names == {"", "biome"}

\* shared_ptr<AIModel> values: the empty pointer and the callers' models.
ModelPtrs == nullptr .. NumModels

\* firstReg's value for a name registerModel was never called with.
Never == -1

\* The map a default-constructed unordered_map holds: no key.
EmptyMap == [n \in {} |-> nullptr]

\* Mutant of AIModelManager_registerModel: no check for an existing entry.
AIModelManager_registerModel_Overwrites(m, name, model) ==
    [models |-> [n \in DOMAIN m \cup {name} |-> IF n = name THEN model ELSE m[n]],
     ret    |-> TRUE]

\* bool AIModelManager::registerModel(name, model), under modelsMutex
AIModelManager_registerModel(m, name, model) ==
    IF name \in DOMAIN m
    THEN [models |-> m, ret |-> FALSE]
    ELSE [models |-> [n \in DOMAIN m \cup {name} |-> IF n = name THEN model ELSE m[n]],
          ret    |-> TRUE]

\* Mutant of AIModelManager_getModel: the lookup is `models[name]`, which
\* inserts an empty pointer for a name that is not there.
AIModelManager_getModel_Inserts(m, name) ==
    IF name \in DOMAIN m
    THEN [models |-> m, ret |-> m[name]]
    ELSE [models |-> [n \in DOMAIN m \cup {name} |-> IF n = name THEN nullptr ELSE m[n]],
          ret    |-> nullptr]

\* shared_ptr<AIModel> AIModelManager::getModel(name), under modelsMutex
AIModelManager_getModel(m, name) ==
    IF name \in DOMAIN m
    THEN [models |-> m, ret |-> m[name]]
    ELSE [models |-> m, ret |-> nullptr]

\* What the record of a call keeps of the call before it.
Brief(c) == [op |-> c.op, name |-> c.name, model |-> c.model, ret |-> c.ret]

\* AIModelManager::getInstance().registerModel(name, model)
registerModel(name, model) ==
    /\ rcalls < MaxRegistryCalls
    /\ LET r == AIModelManager_registerModel(models, name, model)
       IN  /\ models' = r.models
           /\ rlast' = [op |-> "registerModel", name |-> name, model |-> model,
                        ret |-> r.ret, pre |-> models, prev |-> Brief(rlast)]
    /\ firstReg' = IF firstReg[name] = Never
                   THEN [firstReg EXCEPT ![name] = model]
                   ELSE firstReg
    /\ rcalls' = rcalls + 1
    /\ UNCHANGED nonRegistryVars

\* AIModelManager::getInstance().getModel(name)
getModel(name) ==
    /\ rcalls < MaxRegistryCalls
    /\ LET r == AIModelManager_getModel(models, name)
       IN  /\ models' = r.models
           /\ rlast' = [op |-> "getModel", name |-> name, model |-> nullptr,
                        ret |-> r.ret, pre |-> models, prev |-> Brief(rlast)]
    /\ rcalls' = rcalls + 1
    /\ UNCHANGED firstReg
    /\ UNCHANGED nonRegistryVars

\* AIModelManager() = default: an empty map.
RegistryInit ==
    /\ models = EmptyMap
    /\ firstReg = [n \in Names |-> Never]
    /\ rcalls = 0
    /\ rlast = [op |-> "none", name |-> "", model |-> nullptr,
                ret |-> nullptr, pre |-> EmptyMap,
                prev |-> [op |-> "none", name |-> "", model |-> nullptr, ret |-> nullptr]]

RegistryNext ==
    \/ \E name \in Names, model \in ModelPtrs : registerModel(name, model)
    \/ \E name \in Names : getModel(name)

\* ------------------------------------------------ TerrainGenerator
\* A null C pointer, and a pointer to x.
NULL == <<>>

Ptr(x) == <<x>>

\* const int width = 100; const int depth = 100;
width == 100

depth == 100

\* TerrainParams values the callers pass (floats as whole numbers): the
\* heights and positions computed from them are floating point and are not
\* modelled; the grid, the counts and the indices never read them.
TerrainParamsSet ==
    { [scale |-> 1, roughness |-> 1, amplitude |-> 10, octaves |-> 4, seed |-> 0,
       position |-> <<0, 0, 0>>],
      [scale |-> 50, roughness |-> 0, amplitude |-> 0, octaves |-> 0, seed |-> 42,
       position |-> <<-7, 3, 1000>>] }

\* Mutant of InnerLoopCond: the row loop runs over every column.
InnerLoopCond_AllColumns(x) == x < width

\* for (int z = 0; z < depth - 1; z++)
OuterLoopCond(z) == z < depth - 1

\* for (int x = 0; x < width - 1; x++)
InnerLoopCond(x) == x < width - 1

\* The six stores of one quad, in order, each `indices[indexCount++] = value`.
QuadWrites(z, x, indexCount) ==
    LET topLeft == z * width + x
        topRight == topLeft + 1
        bottomLeft == (z + 1) * width + x
        bottomRight == bottomLeft + 1
    IN  << [pos |-> indexCount,     val |-> topLeft],
           [pos |-> indexCount + 1, val |-> bottomLeft],
           [pos |-> indexCount + 2, val |-> bottomRight],
           [pos |-> indexCount + 3, val |-> topLeft],
           [pos |-> indexCount + 4, val |-> bottomRight],
           [pos |-> indexCount + 5, val |-> topRight] >>

\* The elements `heightmap[z * width + x]` / `vertices[z * width + x]` that
\* the inner loop of row z stores to.
RowElements(z) == { z * width + x : x \in 0 .. width - 1 }

\* The Model the function returns: one mesh, the local Mesh copied into it.
TerrainModel(mesh) ==
    Ptr([meshCount |-> 1, meshes |-> <<mesh>>, path |-> "generated_terrain"])

\* No call of generateTerrain in progress.
TerrainIdle ==
    [pc |-> "idle", params |-> NULL, numVertices |-> 0, numIndices |-> 0,
     z |-> 0, x |-> 0, indexCount |-> 0, written |-> <<>>,
     heightsStored |-> {}, verticesStored |-> {}, allocated |-> TRUE,
     result |-> NULL]

\* Entry: the counts, then malloc of vertices and indices, then of heightmap;
\* a failed malloc ends the call with nullptr.
generateTerrain_begin(params, okVertices, okIndices, okHeightmap) ==
    /\ tg.pc = "idle"
    /\ LET t == [TerrainIdle EXCEPT !.params = Ptr(params),
                                    !.numVertices = width * depth,
                                    !.numIndices = (width - 1) * (depth - 1) * 6]
       IN  tg' = IF ~okVertices \/ ~okIndices \/ ~okHeightmap
                 THEN [t EXCEPT !.pc = "done", !.allocated = FALSE, !.result = NULL]
                 ELSE [t EXCEPT !.pc = "heightmap"]
    /\ UNCHANGED nonTerrainVars

\* One row of the heightmap loop: heightmap[z * width + x] for every x.
generateTerrain_heightmapRow ==
    /\ tg.pc = "heightmap"
    /\ tg.z < depth
    /\ tg' = [tg EXCEPT !.heightsStored = RowElements(tg.z), !.z = @ + 1]
    /\ UNCHANGED nonTerrainVars

\* The heightmap loop ends; the vertex loop starts at z = 0.
generateTerrain_heightmapEnd ==
    /\ tg.pc = "heightmap"
    /\ ~(tg.z < depth)
    /\ tg' = [tg EXCEPT !.pc = "vertices", !.z = 0]
    /\ UNCHANGED nonTerrainVars

\* One row of the vertex loop: vertices[z * width + x] for every x.
generateTerrain_vertexRow ==
    /\ tg.pc = "vertices"
    /\ tg.z < depth
    /\ tg' = [tg EXCEPT !.verticesStored = RowElements(tg.z), !.z = @ + 1]
    /\ UNCHANGED nonTerrainVars

\* The vertex loop ends; `int indexCount = 0` and the index loop starts.
generateTerrain_vertexEnd ==
    /\ tg.pc = "vertices"
    /\ ~(tg.z < depth)
    /\ tg' = [tg EXCEPT !.pc = "indices", !.z = 0, !.x = 0, !.indexCount = 0]
    /\ UNCHANGED nonTerrainVars

\* One iteration of the inner index loop: the two triangles of quad (z, x).
generateTerrain_quad ==
    /\ tg.pc = "indices"
    /\ OuterLoopCond(tg.z)
    /\ InnerLoopCond(tg.x)
    /\ tg' = [tg EXCEPT !.written = QuadWrites(tg.z, tg.x, tg.indexCount),
                        !.indexCount = @ + 6,
                        !.x = @ + 1]
    /\ UNCHANGED nonTerrainVars

\* The inner index loop ends: next row.
generateTerrain_rowEnd ==
    /\ tg.pc = "indices"
    /\ OuterLoopCond(tg.z)
    /\ ~InnerLoopCond(tg.x)
    /\ tg' = [tg EXCEPT !.z = @ + 1, !.x = 0]
    /\ UNCHANGED nonTerrainVars

\* The index loop ends: free(heightmap), the OpenGL buffers, then malloc of
\* the Model and of its meshes; the function returns.
generateTerrain_finish(okModel, okMeshes) ==
    /\ tg.pc = "indices"
    /\ ~OuterLoopCond(tg.z)
    /\ tg' = IF ~okModel \/ ~okMeshes
             THEN [tg EXCEPT !.pc = "done", !.allocated = FALSE, !.result = NULL]
             ELSE [tg EXCEPT !.pc = "done",
                             !.result = TerrainModel([numVertices |-> tg.numVertices,
                                                      numIndices |-> tg.numIndices])]
    /\ UNCHANGED nonTerrainVars

TerrainNext ==
    \/ \E params \in TerrainParamsSet, okVertices, okIndices, okHeightmap \in BOOLEAN :
            generateTerrain_begin(params, okVertices, okIndices, okHeightmap)
    \/ generateTerrain_heightmapRow
    \/ generateTerrain_heightmapEnd
    \/ generateTerrain_vertexRow
    \/ generateTerrain_vertexEnd
    \/ generateTerrain_quad
    \/ generateTerrain_rowEnd
    \/ \E okModel, okMeshes \in BOOLEAN : generateTerrain_finish(okModel, okMeshes)

\* ------------------------------------------------ ModelGenerator
\* float size = 0.5f; positions are kept in halves, so size is 1.
size == 1

\* A Vertex: position[3], normal[3], texCoords[2].
Vertex(position, normal, texCoords) ==
    [position |-> position, normal |-> normal, texCoords |-> texCoords]

\* Vertex cubeVertices[8] for a half-extent sz
CubeVerticesOf(sz) ==
    << Vertex(<<-sz, -sz,  sz>>, <<0, 0, 1>>,  <<0, 0>>),
       Vertex(<< sz, -sz,  sz>>, <<0, 0, 1>>,  <<1, 0>>),
       Vertex(<< sz,  sz,  sz>>, <<0, 0, 1>>,  <<1, 1>>),
       Vertex(<<-sz,  sz,  sz>>, <<0, 0, 1>>,  <<0, 1>>),
       Vertex(<<-sz, -sz, -sz>>, <<0, 0, -1>>, <<1, 0>>),
       Vertex(<< sz, -sz, -sz>>, <<0, 0, -1>>, <<0, 0>>),
       Vertex(<< sz,  sz, -sz>>, <<0, 0, -1>>, <<0, 1>>),
       Vertex(<<-sz,  sz, -sz>>, <<0, 0, -1>>, <<1, 1>>) >>

\* Vertex cubeVertices[8]
cubeVertices == CubeVerticesOf(size)

\* unsigned int cubeIndices[36]
cubeIndices ==
    << 0, 1, 2, 0, 2, 3,
       4, 5, 6, 4, 6, 7,
       4, 0, 3, 4, 3, 7,
       1, 5, 6, 1, 6, 2,
       0, 1, 5, 0, 5, 4,
       3, 2, 6, 3, 6, 7 >>

\* memcpy(dst, src, n elements): the first n elements of dst are src's.
memcpy(dst, src, n) ==
    [i \in 1 .. Len(dst) |-> IF i <= n THEN src[i] ELSE dst[i]]

\* What malloc(n elements) returns on success: n elements of no known value.
Uninitialized(n) == [i \in 1 .. n |-> "?"]

\* The characters the file-name loop replaces by '_'.
SpecialChars == {" ", "/", "\\", ":", "*", "?", "\"", "<", ">", "|"}

\* std::string safeName = params.prompt, cut to 20 characters plus "..."
\* when longer, then every special character replaced by '_'.
SafeName(prompt) ==
    LET cut == IF Len(prompt) > 20
               THEN SubSeq(prompt, 1, 20) \o <<".", ".", ".">>
               ELSE prompt
    IN  [i \in 1 .. Len(cut) |-> IF cut[i] \in SpecialChars THEN "_" ELSE cut[i]]

\* snprintf(model->path, sizeof(model->path), "generated_model_%s", safeName):
\* at most 39 characters; the size of Model::path is declared outside these
\* sources and is taken to hold them.
ModelPath(prompt) ==
    <<"g","e","n","e","r","a","t","e","d","_","m","o","d","e","l","_">>
        \o SafeName(prompt)

\* Mutant of ModelGenerator_generateFromText: the cube is scaled by
\* params.size (the x component).
ModelGenerator_generateFromText_Scaled(params, okVertices, okIndices, okModel, okMeshes) ==
    IF ~okVertices \/ ~okIndices \/ ~okModel \/ ~okMeshes
    THEN NULL
    ELSE Ptr([meshCount |-> 1,
              meshes |-> << [numVertices |-> 8, numIndices |-> 36,
                             vertices |-> memcpy(Uninitialized(8),
                                                 CubeVerticesOf(size * params.size[1]), 8),
                             indices |-> memcpy(Uninitialized(36), cubeIndices, 36)] >>,
              path |-> ModelPath(params.prompt)])

\* Model* ModelGenerator::generateFromText(const ModelGenParams& params);
\* ok* say whether each malloc succeeds (vertices and indices are tested
\* together, then the Model, then its meshes).
ModelGenerator_generateFromText(params, okVertices, okIndices, okModel, okMeshes) ==
    LET numVertices == 8
        numIndices == 36
    IN  IF ~okVertices \/ ~okIndices
        THEN NULL
        ELSE IF ~okModel
        THEN NULL
        ELSE IF ~okMeshes
        THEN NULL
        ELSE Ptr([meshCount |-> 1,
                  meshes |-> << [numVertices |-> numVertices,
                                 numIndices |-> numIndices,
                                 vertices |-> memcpy(Uninitialized(numVertices),
                                                     cubeVertices, Len(cubeVertices)),
                                 indices |-> memcpy(Uninitialized(numIndices),
                                                    cubeIndices, Len(cubeIndices))] >>,
                  path |-> ModelPath(params.prompt)])

\* The prompts the callers pass: empty, plain, with special characters, of
\* exactly 20 characters, and of 24 with a special character past the cut.
Prompts ==
    { <<>>,
      <<"c", "a", "t">>,
      <<"a", " ", "b", "/", "c", ":", ".">>,
      <<"1","2","3","4","5","6","7","8","9","0","1","2","3","4","5","6","7","8","9","0">>,
      <<"r","e","d"," ","d","r","a","g","o","n"," ","w","i","t","h"," ","w","i","n","g","s","?","!","*">> }

\* ModelGenParams values the callers pass (floats as whole numbers).
ModelGenParamsSet ==
    [prompt : Prompts, complexity : {0, 1}, resolution : {1, 64},
     texturing : BOOLEAN, size : {<<1, 1, 1>>, <<2, 3, 4>>}]

\* getModelGen().generateFromText(params)
generateFromText(params, okVertices, okIndices, okModel, okMeshes) ==
    /\ mg' = [op |-> "generateFromText", params |-> Ptr(params),
              allocated |-> okVertices /\ okIndices /\ okModel /\ okMeshes,
              result |-> ModelGenerator_generateFromText(
                            params, okVertices, okIndices, okModel, okMeshes)]
    /\ UNCHANGED nonModelGenVars

\* No call made yet.
ModelGenIdle == [op |-> "none", params |-> NULL, allocated |-> TRUE, result |-> NULL]

ModelGenNext ==
    \E params \in ModelGenParamsSet, okVertices, okIndices, okModel, okMeshes \in BOOLEAN :
        generateFromText(params, okVertices, okIndices, okModel, okMeshes)

\* ------------------------------------------------ C interface
\* static constexpr int MAJOR = 0, MINOR = 1, PATCH = 0
MAJOR == 0

MINOR == 1

PATCH == 0

\* The terminating character of a C string.
NUL == "\\0"

Digits == <<"0", "1", "2", "3", "4", "5", "6", "7", "8", "9">>

\* std::to_string(int) of a value that is not negative
RECURSIVE to_string(_)
to_string(n) ==
    IF n < 10 THEN <<Digits[n + 1]>>
    ELSE to_string(n \div 10) \o <<Digits[(n % 10) + 1]>>

\* std::string Version::toString()
Version_toString ==
    to_string(MAJOR) \o <<".">> \o to_string(MINOR) \o <<".">> \o to_string(PATCH)

std_min(a, b) == IF b < a THEN b ELSE a

\* strncpy(dest, src, n) for src without embedded NUL: the first n elements
\* of dest are src's characters, padded with NUL past its end.
strncpy(dest, src, n) ==
    [i \in 1 .. Len(dest) |->
        IF i <= n THEN (IF i <= Len(src) THEN src[i] ELSE NUL) ELSE dest[i]]

\* dest[i] = c, i counted from 0
Store(dest, i, c) == [k \in 1 .. Len(dest) |-> IF k = i + 1 THEN c ELSE dest[k]]

\* Mutant of safeCopyString: the copy is not cut to leave room for the
\* terminator (destSize instead of destSize - 1).
safeCopyString_NoRoom(src, dest, destSize) ==
    IF dest = NULL \/ destSize <= 0
    THEN [ret |-> FALSE, dest |-> dest, oob |-> FALSE]
    ELSE LET copyLength == std_min(Len(src), destSize)
         IN  [ret  |-> TRUE,
              dest |-> Ptr(Store(strncpy(dest[1], src, copyLength), copyLength, NUL)),
              oob  |-> copyLength + 1 > Len(dest[1])]

\* static bool safeCopyString(const std::string& src, char* dest, int destSize);
\* dest is NULL or points to an array; oob says that a store fell outside it.
safeCopyString(src, dest, destSize) ==
    IF dest = NULL \/ destSize <= 0
    THEN [ret |-> FALSE, dest |-> dest, oob |-> FALSE]
    ELSE LET copyLength == std_min(Len(src), destSize - 1)
         IN  [ret  |-> TRUE,
              dest |-> Ptr(Store(strncpy(dest[1], src, copyLength), copyLength, NUL)),
              oob  |-> copyLength + 1 > Len(dest[1])]

\* bool StellAI_GetVersion(char* buffer, int bufferSize)
GetVersion(buffer, bufferSize) ==
    IF buffer = NULL \/ bufferSize <= 0
    THEN [ret |-> FALSE, dest |-> buffer, oob |-> FALSE]
    ELSE LET version == Version_toString
         IN  safeCopyString(version, buffer, bufferSize)

\* The text the raw string literal `vertexShader` of generateShader stands
\* for (some 600 characters, none of which any operation reads one by one).
vertexShader == <<"\n", "#", "v", "s">>

\* The same for the literal `fragmentShader` (some 1200 characters).
fragmentShader == <<"\n", "#", "f", "r", "a", "g">>

\* std::pair<std::string, std::string> ShaderGenerator::generateShader(params)
ShaderGenerator_generateShader(params) == <<vertexShader, fragmentShader>>

\* std::pair<std::string, std::string> ShaderGenerator::optimizeShader(v, f)
ShaderGenerator_optimizeShader(v, f) == <<v, f>>

\* bool TerrainGenerator::applyBiomes(Model* terrain, const std::string& aiModelName)
TerrainGenerator_applyBiomes(terrain, aiModelName) ==
    IF terrain = NULL \/ terrain[1].meshCount = 0 THEN FALSE ELSE TRUE

\* What TerrainGenerator::generateTerrain returns to its caller: the model,
\* or nullptr when an allocation failed.
TerrainGenerator_generateTerrain(params, allocated) ==
    IF allocated
    THEN TerrainModel([numVertices |-> width * depth,
                       numIndices |-> (width - 1) * (depth - 1) * 6])
    ELSE NULL

\* The record of a generator call made by a function of the C interface.
Invoked(method, args) == [method |-> method, args |-> args]

\* Model* StellAI_GenerateTerrain(const StellAI_TerrainParams* params)
GenerateTerrain(params, allocated) ==
    IF params = NULL
    THEN [ret |-> NULL, invoked |-> <<>>]
    ELSE LET cpp_params == [scale |-> params[1].scale,
                            roughness |-> params[1].roughness,
                            amplitude |-> params[1].amplitude,
                            octaves |-> params[1].octaves,
                            seed |-> params[1].seed,
                            position |-> params[1].position]
         IN  [ret |-> TerrainGenerator_generateTerrain(cpp_params, allocated),
              invoked |-> <<Invoked("generateTerrain", cpp_params)>>]

\* bool StellAI_ApplyBiomes(Model* terrain, const char* aiModelName)
ApplyBiomes(terrain, aiModelName) ==
    IF terrain = NULL \/ aiModelName = NULL
    THEN [ret |-> FALSE, invoked |-> <<>>]
    ELSE [ret |-> TerrainGenerator_applyBiomes(terrain, aiModelName[1]),
          invoked |-> <<Invoked("applyBiomes", <<terrain, aiModelName[1]>>)>>]

\* Model* StellAI_GenerateModelFromText(const StellAI_ModelGenParams* params)
GenerateModelFromText(params, allocated) ==
    IF params = NULL \/ params[1].prompt = NULL
    THEN [ret |-> NULL, invoked |-> <<>>]
    ELSE LET cpp_params == [prompt |-> params[1].prompt[1],
                            complexity |-> params[1].complexity,
                            resolution |-> params[1].resolution,
                            texturing |-> params[1].texturing,
                            size |-> params[1].size]
         IN  [ret |-> ModelGenerator_generateFromText(
                          cpp_params, allocated, allocated, allocated, allocated),
              invoked |-> <<Invoked("generateFromText", cpp_params)>>]

\* cpp_params.features: the pointers of features[0 .. numFeatures-1] that
\* are not NULL, in order, when features is not NULL and numFeatures > 0.
RECURSIVE FeaturesVector(_, _)
FeaturesVector(features, numFeatures) ==
    IF features = NULL \/ numFeatures <= 0 THEN <<>>
    ELSE LET before == FeaturesVector(features, numFeatures - 1)
             f == features[1][numFeatures]
         IN  IF f /= NULL THEN Append(before, f[1]) ELSE before

\* The two copies to the output buffers and the result of both.
CopyShaders(pair, invoked, vertexOut, vertexSize, fragmentOut, fragmentSize) ==
    LET vertexCopy == safeCopyString(pair[1], vertexOut, vertexSize)
        fragmentCopy == safeCopyString(pair[2], fragmentOut, fragmentSize)
    IN  [ret |-> vertexCopy.ret /\ fragmentCopy.ret,
         invoked |-> invoked,
         vertexOut |-> vertexCopy.dest,
         fragmentOut |-> fragmentCopy.dest,
         oob |-> vertexCopy.oob \/ fragmentCopy.oob]

\* Mutant of GenerateShader: the two buffer sizes are not checked.
GenerateShader_NoSizeCheck(params, vertexOut, vertexSize, fragmentOut, fragmentSize) ==
    IF \/ params = NULL \/ params[1].effect = NULL
       \/ vertexOut = NULL \/ fragmentOut = NULL
    THEN [ret |-> FALSE, invoked |-> <<>>, vertexOut |-> vertexOut,
          fragmentOut |-> fragmentOut, oob |-> FALSE]
    ELSE LET cpp_params ==
                [effect |-> params[1].effect[1],
                 optimizeForPerformance |-> params[1].optimizeForPerformance,
                 features |-> FeaturesVector(params[1].features, params[1].numFeatures)]
         IN  CopyShaders(ShaderGenerator_generateShader(cpp_params),
                         <<Invoked("generateShader", cpp_params)>>,
                         vertexOut, vertexSize, fragmentOut, fragmentSize)

\* bool StellAI_GenerateShader(params, vertexShader, vertexShaderSize,
\*                             fragmentShader, fragmentShaderSize)
GenerateShader(params, vertexOut, vertexSize, fragmentOut, fragmentSize) ==
    IF \/ params = NULL \/ params[1].effect = NULL
       \/ vertexOut = NULL \/ fragmentOut = NULL
       \/ vertexSize <= 0 \/ fragmentSize <= 0
    THEN [ret |-> FALSE, invoked |-> <<>>, vertexOut |-> vertexOut,
          fragmentOut |-> fragmentOut, oob |-> FALSE]
    ELSE LET cpp_params ==
                [effect |-> params[1].effect[1],
                 optimizeForPerformance |-> params[1].optimizeForPerformance,
                 features |-> FeaturesVector(params[1].features, params[1].numFeatures)]
         IN  CopyShaders(ShaderGenerator_generateShader(cpp_params),
                         <<Invoked("generateShader", cpp_params)>>,
                         vertexOut, vertexSize, fragmentOut, fragmentSize)

\* bool StellAI_OptimizeShader(vertexShader, fragmentShader,
\*                             optimizedVertexShader, vertexShaderSize,
\*                             optimizedFragmentShader, fragmentShaderSize)
OptimizeShader(vertexIn, fragmentIn, vertexOut, vertexSize, fragmentOut, fragmentSize) ==
    IF \/ vertexIn = NULL \/ fragmentIn = NULL
       \/ vertexOut = NULL \/ fragmentOut = NULL
       \/ vertexSize <= 0 \/ fragmentSize <= 0
    THEN [ret |-> FALSE, invoked |-> <<>>, vertexOut |-> vertexOut,
          fragmentOut |-> fragmentOut, oob |-> FALSE]
    ELSE CopyShaders(ShaderGenerator_optimizeShader(vertexIn[1], fragmentIn[1]),
                     <<Invoked("optimizeShader", <<vertexIn[1], fragmentIn[1]>>)>>,
                     vertexOut, vertexSize, fragmentOut, fragmentSize)

\* ---- the callers' arguments
\* An array of n characters as the caller hands it over.
Buffer(n) == [i \in 1 .. n |-> "?"]

\* (buffer, bufferSize) pairs: no buffer, or an array of 1..MaxBuffer
\* characters announced with its length or less, zero and -1 included.
CallerBuffers ==
    { [ptr |-> NULL, size |-> sz] : sz \in -1 .. MaxBuffer }
    \cup UNION { { [ptr |-> Ptr(Buffer(cap)), size |-> sz] : sz \in -1 .. cap }
                 : cap \in 1 .. MaxBuffer }

\* The same with every array announced with its full length.
ShaderBuffers ==
    { b \in CallerBuffers : b.ptr = NULL \/ b.size <= 0 \/ b.size = Len(b.ptr[1]) }

\* C strings the callers pass: none, the empty one, a short one.
CStrings == { NULL, Ptr(<<>>), Ptr(<<"i", "c", "e">>) }

\* const StellAI_TerrainParams* values
CTerrainParams == { NULL } \cup { Ptr(tp) : tp \in TerrainParamsSet }

\* Model* values handed to StellAI_ApplyBiomes
CModels ==
    { NULL,
      Ptr([meshCount |-> 0, meshes |-> <<>>, path |-> "empty"]),
      TerrainGenerator_generateTerrain(NULL, TRUE) }

\* const StellAI_ModelGenParams* values
CModelGenParams ==
    { NULL } \cup
    { Ptr([prompt |-> pr, complexity |-> 1, resolution |-> 64, texturing |-> TRUE,
           size |-> <<1, 1, 1>>]) : pr \in CStrings }

\* const StellAI_ShaderGenParams* values: features is NULL or an array one of
\* whose entries is NULL.
CShaderGenParams ==
    { NULL } \cup
    { Ptr([effect |-> ef, optimizeForPerformance |-> TRUE,
           features |-> ft, numFeatures |-> nf])
        : ef \in CStrings,
          ft \in { NULL, Ptr(<<Ptr(<<"f", "o", "g">>), NULL>>) },
          nf \in { 0, 2 } }

\* ---- the calls
StellAI_GetVersion(b) ==
    /\ clast.op = "none"
    /\ clast' = [op |-> "StellAI_GetVersion", args |-> <<b>>,
                 out |-> GetVersion(b.ptr, b.size)]
    /\ UNCHANGED nonCApiVars

StellAI_GenerateTerrain(params, allocated) ==
    /\ clast.op = "none"
    /\ clast' = [op |-> "StellAI_GenerateTerrain", args |-> <<params>>,
                 out |-> GenerateTerrain(params, allocated)]
    /\ UNCHANGED nonCApiVars

StellAI_ApplyBiomes(terrain, aiModelName) ==
    /\ clast.op = "none"
    /\ clast' = [op |-> "StellAI_ApplyBiomes", args |-> <<terrain, aiModelName>>,
                 out |-> ApplyBiomes(terrain, aiModelName)]
    /\ UNCHANGED nonCApiVars

StellAI_GenerateModelFromText(params, allocated) ==
    /\ clast.op = "none"
    /\ clast' = [op |-> "StellAI_GenerateModelFromText", args |-> <<params>>,
                 out |-> GenerateModelFromText(params, allocated)]
    /\ UNCHANGED nonCApiVars

StellAI_GenerateShader(params, v, f) ==
    /\ clast.op = "none"
    /\ clast' = [op |-> "StellAI_GenerateShader", args |-> <<params, v, f>>,
                 out |-> GenerateShader(params, v.ptr, v.size, f.ptr, f.size)]
    /\ UNCHANGED nonCApiVars

StellAI_OptimizeShader(vertexIn, fragmentIn, v, f) ==
    /\ clast.op = "none"
    /\ clast' = [op |-> "StellAI_OptimizeShader", args |-> <<vertexIn, fragmentIn, v, f>>,
                 out |-> OptimizeShader(vertexIn, fragmentIn, v.ptr, v.size, f.ptr, f.size)]
    /\ UNCHANGED nonCApiVars

\* No call in progress.
CApiIdle == [op |-> "none", args |-> <<>>, out |-> [ret |-> FALSE]]

\* The caller has taken the result; the interface keeps nothing of the call.
CApiReturn ==
    /\ clast.op /= "none"
    /\ clast' = CApiIdle
    /\ UNCHANGED nonCApiVars

CApiNext ==
    \/ \E b \in CallerBuffers : StellAI_GetVersion(b)
    \/ \E params \in CTerrainParams, allocated \in BOOLEAN :
            StellAI_GenerateTerrain(params, allocated)
    \/ \E terrain \in CModels, aiModelName \in CStrings :
            StellAI_ApplyBiomes(terrain, aiModelName)
    \/ \E params \in CModelGenParams, allocated \in BOOLEAN :
            StellAI_GenerateModelFromText(params, allocated)
    \/ \E params \in CShaderGenParams, v \in ShaderBuffers, f \in ShaderBuffers :
            StellAI_GenerateShader(params, v, f)
    \/ \E vertexIn \in CStrings, fragmentIn \in CStrings,
          v \in ShaderBuffers, f \in ShaderBuffers :
            StellAI_OptimizeShader(vertexIn, fragmentIn, v, f)
    \/ CApiReturn

\* ------------------------------------------------------- material generation
\* A texture handle; 0 is no texture.  PBRMaterial's definition (materials.h)
\* is outside the sources: the model keeps the five maps that
\* generateMaterial names.
TextureIds == 0 .. MaxTexture

PBRMaterial ==
    [albedoMap : TextureIds, normalMap : TextureIds, metallicMap : TextureIds,
     roughnessMap : TextureIds, aoMap : TextureIds]

\* PBRMaterial material = {}; and PBRMaterial defaultMaterial = { 0 };
ZeroMaterial ==
    [albedoMap |-> 0, normalMap |-> 0, metallicMap |-> 0, roughnessMap |-> 0, aoMap |-> 0]

\* The engine's material table (extern materials[], materialCount): the
\* first materialCount entries are loaded.
MaterialTables ==
    LET loaded == {[ZeroMaterial EXCEPT !.albedoMap = 1],
                   [ZeroMaterial EXCEPT !.normalMap = 1, !.aoMap = 1]}
    IN  UNION {[1 .. n -> loaded] : n \in 0 .. MaxMaterials}

materialCount(materials) == Len(materials)

\* ModelGenerator::generateMaterial as src/src/core/StellAI.cpp has it: the
\* local starts zeroed.  Neither model nor description is read.
ModelGenerator_generateMaterial(materials, model, description) ==
    LET material == ZeroMaterial
    IN  IF materialCount(materials) > 0 THEN materials[1] ELSE material

\* ModelGenerator::generateMaterial as src/unnamed/part_006 has it:
\* `PBRMaterial material;` has no initializer, so with an empty table the
\* function returns an indeterminate value, any PBRMaterial.
ModelGenerator_generateMaterial_part_006(materials, model, description, indeterminate) ==
    LET material == indeterminate
    IN  IF materialCount(materials) > 0 THEN materials[1] ELSE material

\* The two copies of the function in the repository; a build links one.
Builds == {"StellAI.cpp", "part_006"}

generateMaterialOf(build, materials, model, description, indeterminate) ==
    IF build = "StellAI.cpp"
    THEN ModelGenerator_generateMaterial(materials, model, description)
    ELSE ModelGenerator_generateMaterial_part_006(materials, model, description, indeterminate)

\* StellAI_GenerateMaterial of the C interface.
GenerateMaterial(build, materials, model, description, indeterminate) ==
    IF model = NULL \/ description = NULL
    THEN LET defaultMaterial == ZeroMaterial
         IN  IF materialCount(materials) > 0 THEN materials[1] ELSE defaultMaterial
    ELSE generateMaterialOf(build, materials, model, description[1], indeterminate)

MaterialModels == {NULL, Ptr("model")}
Descriptions == {<<>>, <<"o", "r", "e">>}

MaterialIdle ==
    [op |-> "none", build |-> "StellAI.cpp", materials |-> <<>>, model |-> NULL,
     description |-> NULL, ret |-> ZeroMaterial]

generateMaterial ==
    /\ mat.op = "none"
    /\ \E build \in Builds, materials \in MaterialTables, model \in MaterialModels,
       description \in Descriptions, indeterminate \in PBRMaterial :
        /\ mat' = [op |-> "generateMaterial", build |-> build, materials |-> materials,
                   model |-> model, description |-> Ptr(description),
                   ret |-> generateMaterialOf(build, materials, model, description,
                                              indeterminate)]
        /\ UNCHANGED nonMaterialVars

StellAI_GenerateMaterial ==
    /\ mat.op = "none"
    /\ \E build \in Builds, materials \in MaterialTables, model \in MaterialModels,
       description \in {NULL} \cup {Ptr(t) : t \in Descriptions},
       indeterminate \in PBRMaterial :
        /\ mat' = [op |-> "StellAI_GenerateMaterial", build |-> build,
                   materials |-> materials, model |-> model, description |-> description,
                   ret |-> GenerateMaterial(build, materials, model, description,
                                            indeterminate)]
        /\ UNCHANGED nonMaterialVars

\* The call returns; the next one starts from the idle record.
MaterialReturn ==
    /\ mat.op /= "none"
    /\ mat' = MaterialIdle
    /\ UNCHANGED nonMaterialVars

MaterialNext ==
    \/ generateMaterial
    \/ StellAI_GenerateMaterial
    \/ MaterialReturn

\* -------------------------------------------------------------- scene editor
\* ObjectManager.h: SceneObject objects[MAX_OBJECTS]; int count.  The model
\* keeps the first count entries of objects, each object by its ObjectType.
MAX_OBJECTS == 1000

ObjectTypes ==
    {"OBJ_CUBE", "OBJ_SPHERE", "OBJ_PYRAMID", "OBJ_CYLINDER", "OBJ_PLANE", "OBJ_MODEL"}

LightTypes == {"LIGHT_POINT", "LIGHT_DIRECTIONAL", "LIGHT_SPOT"}

\* Every function of the object manager, the action log and the light table
\* that gui.c calls is noted in trace, in call order.
Called(g, name) == [g EXCEPT !.trace = Append(@, name)]

addObject_NoCapacityCheck(om, object) ==
    [objects |-> Append(om.objects, object), count |-> om.count + 1]

\* addObject (ObjectManager.c, outside the sources): the table has a fixed
\* capacity; a full table takes no further object.
addObject(om, object) ==
    IF om.count >= MAX_OBJECTS
    THEN om
    ELSE [objects |-> Append(om.objects, object), count |-> om.count + 1]

\* removeObject (outside the sources): the objects after index move down.
removeObject(om, index) ==
    IF index < 0 \/ index >= om.count
    THEN om
    ELSE [objects |-> SubSeq(om.objects, 1, index) \o SubSeq(om.objects, index + 2, om.count),
          count |-> om.count - 1]

\* The reverse of removeObject: the object is back at index.
insertObject(om, index, object) ==
    [objects |-> SubSeq(om.objects, 1, index) \o <<object>>
                    \o SubSeq(om.objects, index + 1, om.count),
     count |-> om.count + 1]

\* An entry of the command history: the edit, its index, the object.
Action(type, index, object) == <<type, index, object>>

ActionType(a) == a[1]

ActionIndex(a) == a[2]

ActionObject(a) == a[3]

\* addObjectWithAction (the action log, outside the sources): addObject, and
\* an object that was added is pushed on the command history.
addObjectWithAction(g, object) ==
    LET om == addObject(g.objectManager, object)
        h == Called(g, "addObjectWithAction")
    IN  IF om.count = g.objectManager.count
        THEN h
        ELSE [h EXCEPT !.objectManager = om,
                       !.history = Append(@, Action("ACTION_ADD", om.count - 1, object)),
                       !.redo = <<>>]

\* removeObjectWithAction (outside the sources): the removed object is kept
\* in the command history, then removeObject.
removeObjectWithAction(g, index) ==
    LET h == Called(g, "removeObjectWithAction")
    IN  IF index < 0 \/ index >= g.objectManager.count
        THEN h
        ELSE [h EXCEPT !.objectManager = removeObject(@, index),
                       !.history = Append(@, Action("ACTION_REMOVE", index,
                                                     g.objectManager.objects[index + 1])),
                       !.redo = <<>>]

\* undo_last_action (outside the sources): pops the command history and
\* reverses that edit.
undo_last_action(g) ==
    LET h == Called(g, "undo_last_action")
        n == Len(g.history)
    IN  IF n = 0
        THEN h
        ELSE LET a == g.history[n]
             IN  [h EXCEPT !.objectManager =
                               IF ActionType(a) = "ACTION_ADD"
                               THEN removeObject(@, ActionIndex(a))
                               ELSE insertObject(@, ActionIndex(a), ActionObject(a)),
                           !.history = SubSeq(@, 1, n - 1),
                           !.redo = Append(@, a)]

\* redo_last_action (outside the sources): repeats the edit undone last.
redo_last_action(g) ==
    LET h == Called(g, "redo_last_action")
        n == Len(g.redo)
    IN  IF n = 0
        THEN h
        ELSE LET a == g.redo[n]
             IN  [h EXCEPT !.objectManager =
                               IF ActionType(a) = "ACTION_ADD"
                               THEN insertObject(@, ActionIndex(a), ActionObject(a))
                               ELSE removeObject(@, ActionIndex(a)),
                           !.history = Append(@, a),
                           !.redo = SubSeq(@, 1, n - 1)]

\* createLight (lights.c, outside the sources): a light of this type is
\* added unless the light table is full.
createLight(g, type) ==
    LET h == Called(g, "createLight")
    IN  IF Len(g.lights) >= MaxLights THEN h ELSE [h EXCEPT !.lights = Append(@, type)]

\* gui.c.  selected_object points into objectManager.objects: Ptr(i) is
\* &objectManager.objects[i].
find_selected_object_index(g) ==
    IF g.selected_object = NULL
    THEN -1
    ELSE IF g.selected_object[1] >= 0 /\ g.selected_object[1] < g.objectManager.count
         THEN g.selected_object[1]
         ELSE -1

select_object(g, index) ==
    IF index >= 0 /\ index < g.objectManager.count
    THEN [g EXCEPT !.selected_object = Ptr(index)]
    ELSE g

\* What *selected_object reads: the object of a live slot, and whatever a
\* slot past count still holds (stale) when the pointer outlived its object.
Deref(g, stale) ==
    IF find_selected_object_index(g) /= -1
    THEN g.objectManager.objects[find_selected_object_index(g) + 1]
    ELSE stale

\* filePath is the file dialog's answer, model is loadModel's.
import_model(g, filePath, model) ==
    IF filePath = NULL
    THEN g
    ELSE IF model /= NULL THEN addObjectWithAction(g, "OBJ_MODEL") ELSE g

\* allocated: malloc of the clipboard's SceneObject succeeded.
cut_object(g, allocated) ==
    IF g.selected_object /= NULL /\ find_selected_object_index(g) /= -1
    THEN IF allocated
         THEN [removeObjectWithAction(g, find_selected_object_index(g))
                  EXCEPT !.clipboard_object = Ptr(Deref(g, "OBJ_CUBE")),
                         !.isCutOperation = TRUE,
                         !.selected_object = NULL]
         ELSE [g EXCEPT !.clipboard_object = NULL]
    ELSE g

copy_object(g, allocated, stale) ==
    IF g.selected_object /= NULL
    THEN IF allocated
         THEN [g EXCEPT !.clipboard_object = Ptr(Deref(g, stale)),
                        !.isCutOperation = FALSE]
         ELSE [g EXCEPT !.clipboard_object = NULL]
    ELSE g

paste_object(g) ==
    IF g.clipboard_object /= NULL
    THEN LET newObject == g.clipboard_object[1]
             added == addObjectWithAction(g, newObject)
             pasted == IF g.isCutOperation
                       THEN [added EXCEPT !.clipboard_object = NULL,
                                          !.isCutOperation = FALSE]
                       ELSE added
         IN  [pasted EXCEPT !.selected_object = Ptr(pasted.objectManager.count - 1)]
    ELSE g

\* The object-creation keys of key_callback, and the light-creation keys.
CreationKey(key) ==
    CASE key = "O" -> "OBJ_PLANE"
      [] key = "C" -> "OBJ_CUBE"
      [] key = "H" -> "OBJ_PYRAMID"
      [] key = "K" -> "OBJ_SPHERE"
      [] key = "B" -> "OBJ_CYLINDER"

LightKey(key) ==
    CASE key = "P" -> "LIGHT_POINT"
      [] key = "D" -> "LIGHT_DIRECTIONAL"
      [] key = "S" -> "LIGHT_SPOT"

\* `if (key == GLFW_KEY_P && action == GLFW_PRESS)`: the modifiers are not read.
key_callback_Pause(g, key, action, mods) ==
    IF key = "P" /\ action = "PRESS" THEN [g EXCEPT !.isRunning = ~@] ELSE g

\* The editing keys of key_callback, which do not look at isRunning.
key_callback_Edit(g, key, action, mods, allocated, stale) ==
    LET ctrl == "CONTROL" \in mods
        press == action = "PRESS"
        g1 == IF key = "Z" /\ ctrl /\ press THEN undo_last_action(g) ELSE g
        g2 == IF key = "Y" /\ ctrl /\ press THEN redo_last_action(g1) ELSE g1
        g3 == IF key = "X" /\ ctrl /\ press THEN cut_object(g2, allocated) ELSE g2
        g4 == IF key = "C" /\ ctrl /\ press THEN copy_object(g3, allocated, stale) ELSE g3
        g5 == IF key = "V" /\ ctrl /\ press THEN paste_object(g4) ELSE g4
    IN  IF key = "DELETE" /\ press
           /\ g5.selected_object /= NULL /\ find_selected_object_index(g5) /= -1
        THEN [removeObjectWithAction(g5, find_selected_object_index(g5))
                 EXCEPT !.selected_object = NULL]
        ELSE g5

\* The creation shortcuts, inside `if (!isRunning)`.
key_callback_Create(g, key, action, mods, filePath, model) ==
    LET ctrl == "CONTROL" \in mods
        press == action = "PRESS"
        g1 == IF key \in {"O", "H", "K", "B"} /\ press
              THEN addObjectWithAction(g, CreationKey(key)) ELSE g
        g2 == IF key = "C" /\ press /\ ~ctrl
              THEN addObjectWithAction(g1, CreationKey(key)) ELSE g1
        g3 == IF key = "I" /\ press THEN import_model(g2, filePath, model) ELSE g2
    IN  IF key \in {"P", "D", "S"} /\ press /\ ctrl
        THEN createLight(g3, LightKey(key)) ELSE g3

key_callback(g, WantCaptureKeyboard, key, action, mods, allocated, stale, filePath, model) ==
    IF WantCaptureKeyboard
    THEN g
    ELSE LET paused == key_callback_Pause(g, key, action, mods)
             edited == key_callback_Edit(paused, key, action, mods, allocated, stale)
         IN  IF ~edited.isRunning
             THEN key_callback_Create(edited, key, action, mods, filePath, model)
             ELSE edited

\* The widgets of render_hierarchy_window, render_inspector_window and
\* main_gui that touch the scene.  A widget that is not drawn, or a menu item
\* that is disabled, cannot be clicked.
HierarchyDelete(g, i) == [removeObjectWithAction(g, i) EXCEPT !.selected_object = NULL]

HierarchyDuplicate(g, allocated, stale) == paste_object(copy_object(g, allocated, stale))

HierarchyAdd_Unrecorded(g, type) ==
    [Called(g, "addObject") EXCEPT !.objectManager = addObject(@, type)]

HierarchyAdd(g, type) == addObjectWithAction(g, type)

InspectorDelete(g) ==
    IF find_selected_object_index(g) /= -1
    THEN [removeObjectWithAction(g, find_selected_object_index(g))
             EXCEPT !.selected_object = NULL]
    ELSE g

MenuObjectsAdd(g, type) == addObjectWithAction(g, type)

MenuObjectsLight(g, type) == createLight(g, type)

\* main.c: the default scene, made with addObject and createLight before the
\* first frame; the editor starts paused with nothing selected.
DefaultScene ==
    [objectManager |-> [objects |-> <<"OBJ_PLANE", "OBJ_CUBE", "OBJ_SPHERE", "OBJ_PYRAMID">>,
                        count |-> 4],
     selected_object |-> NULL, clipboard_object |-> NULL, isCutOperation |-> FALSE,
     history |-> <<>>, redo |-> <<>>, isRunning |-> FALSE,
     lights |-> <<"LIGHT_POINT">>, trace |-> <<>>]

GuiIdle == [op |-> "none", args |-> <<>>]

Primitives == ObjectTypes \ {"OBJ_MODEL"}

Keys == {"P", "Z", "Y", "X", "C", "V", "DELETE", "O", "H", "K", "B", "I", "D", "S", "F1"}

\* Key events: every key pressed with and without Ctrl, and a release and a
\* press that ImGui captures.
KeyEvents ==
    {<<FALSE, key, "PRESS", mods>> : key \in Keys, mods \in {{}, {"CONTROL"}}}
        \cup {<<FALSE, "P", "RELEASE", {"CONTROL"}>>, <<TRUE, "C", "PRESS", {}>>}

\* The answers of the file dialog and of loadModel.
Dialogs == {<<NULL, NULL>>, <<Ptr("a.obj"), NULL>>, <<Ptr("a.obj"), Ptr("model")>>}

\* One event: the handler starts with an empty trace.
Event(op, args, g) ==
    /\ gcalls < MaxGuiEvents
    /\ gcalls' = gcalls + 1
    /\ glast' = [op |-> op, args |-> args]
    /\ gui' = g
    /\ UNCHANGED nonGuiVars

Fresh == [gui EXCEPT !.trace = <<>>]

\* The selected slot lies past count: *selected_object reads a stale object.
StaleObjects ==
    IF gui.selected_object /= NULL /\ find_selected_object_index(gui) = -1
    THEN ObjectTypes
    ELSE {"OBJ_CUBE"}

KeyEvent ==
    \E e \in KeyEvents, allocated \in BOOLEAN, stale \in StaleObjects, d \in Dialogs :
        /\ (allocated = FALSE) => ("CONTROL" \in e[4] /\ e[2] \in {"X", "C"})
        /\ (d /= <<NULL, NULL>>) => e[2] = "I"
        /\ Event("key_callback", e,
                 key_callback(Fresh, e[1], e[2], e[3], e[4], allocated, stale, d[1], d[2]))

\* The C key pressed n times in a row (in two halves, the first one
\* evaluated before the second starts).
RECURSIVE PressCubeKey(_, _)
PressCubeKey(g, n) ==
    IF n = 0
    THEN g
    ELSE IF n = 1
         THEN key_callback([g EXCEPT !.trace = <<>>], FALSE, "C", "PRESS", {},
                           TRUE, "OBJ_CUBE", NULL, NULL)
         ELSE LET half == PressCubeKey(g, n \div 2)
              IN  IF half.objectManager.count >= 0
                  THEN PressCubeKey(half, n - (n \div 2))
                  ELSE half

\* From the default scene the C key is pressed until the table is full.
FillScene ==
    /\ gcalls = 0
    /\ gui = DefaultScene
    /\ gui' = [PressCubeKey(gui, MAX_OBJECTS - gui.objectManager.count) EXCEPT !.trace = <<>>]
    /\ UNCHANGED <<gcalls, glast>>
    /\ UNCHANGED nonGuiVars

\* The rows the hierarchy window offers to click: the first and the last.
Rows == {i \in {0, gui.objectManager.count - 1} : i >= 0 /\ i < gui.objectManager.count}

HierarchySelectClick ==
    \E i \in Rows : Event("hierarchy_select", <<i>>, select_object(Fresh, i))

HierarchyDeleteClick ==
    \E i \in Rows :
        /\ gui.selected_object = Ptr(i)
        /\ Event("hierarchy_delete", <<i>>, HierarchyDelete(Fresh, i))

HierarchyDuplicateClick ==
    \E i \in Rows, allocated \in BOOLEAN :
        /\ gui.selected_object = Ptr(i)
        /\ Event("hierarchy_duplicate", <<i, allocated>>,
                 HierarchyDuplicate(Fresh, allocated, "OBJ_CUBE"))

HierarchyAddClick ==
    \/ \E type \in Primitives : Event("hierarchy_add", <<type>>, HierarchyAdd(Fresh, type))
    \/ \E d \in Dialogs : Event("hierarchy_model", d, import_model(Fresh, d[1], d[2]))

InspectorDeleteClick ==
    /\ gui.selected_object /= NULL
    /\ Event("inspector_delete", <<>>, InspectorDelete(Fresh))

MenuEditClick ==
    \/ Event("menu_undo", <<>>, undo_last_action(Fresh))
    \/ Event("menu_redo", <<>>, redo_last_action(Fresh))
    \/ /\ gui.selected_object /= NULL
       /\ \E allocated \in BOOLEAN :
            Event("menu_cut", <<allocated>>, cut_object(Fresh, allocated))
    \/ /\ gui.selected_object /= NULL
       /\ \E allocated \in BOOLEAN, stale \in StaleObjects :
            Event("menu_copy", <<allocated>>, copy_object(Fresh, allocated, stale))
    \/ /\ gui.clipboard_object /= NULL
       /\ Event("menu_paste", <<>>, paste_object(Fresh))
    \/ /\ gui.selected_object /= NULL
       /\ Event("menu_deselect", <<>>, [Fresh EXCEPT !.selected_object = NULL])

MenuObjectsClick ==
    \/ \E type \in Primitives : Event("menu_add", <<type>>, MenuObjectsAdd(Fresh, type))
    \/ \E d \in Dialogs : Event("menu_import", d, import_model(Fresh, d[1], d[2]))
    \/ \E type \in LightTypes : Event("menu_light", <<type>>, MenuObjectsLight(Fresh, type))

GuiNext ==
    \/ FillScene
    \/ KeyEvent
    \/ HierarchySelectClick
    \/ HierarchyDeleteClick
    \/ HierarchyDuplicateClick
    \/ HierarchyAddClick
    \/ InspectorDeleteClick
    \/ MenuEditClick
    \/ MenuObjectsClick

\* ------------------------------------------- AIModelManager, several threads
\* registerModel and getModel statement by statement, each thread at its own
\* position; the map is the variable models.
Threads == 1 .. NumThreads

NoThread == 0

\* ok is what registerModel returns, ret what getModel returns; a call has
\* its result from pc = "unlock" on.
IdleThread ==
    [pc |-> "idle", op |-> "none", name |-> "", model |-> nullptr,
     ok |-> FALSE, ret |-> nullptr]

\* Mutant of mutex_lock: the lock is taken without waiting for its holder.
mutex_lock_NoWait(holder) == TRUE

\* std::lock_guard<std::mutex> lock(modelsMutex) blocks while the mutex is held.
mutex_lock(holder) == holder = NoThread

\* models[name] = model
Assign(m, name, model) == [n \in DOMAIN m \cup {name} |-> IF n = name THEN model ELSE m[n]]

\* A thread enters registerModel(name, model) or getModel(name).
ThreadCall(t) ==
    /\ threads[t].pc = "idle"
    /\ \E name \in Names :
        \/ \E model \in ModelPtrs :
            threads' = [threads EXCEPT ![t] = [pc |-> "lock", op |-> "registerModel",
                                               name |-> name, model |-> model,
                                               ok |-> FALSE, ret |-> nullptr]]
        \/ threads' = [threads EXCEPT ![t] = [pc |-> "lock", op |-> "getModel",
                                              name |-> name, model |-> nullptr,
                                              ok |-> FALSE, ret |-> nullptr]]
    /\ UNCHANGED <<modelsMutex, registryVars>>
    /\ UNCHANGED nonThreadVars

\* The constructor of the lock_guard.
lock_guard(t) ==
    /\ threads[t].pc = "lock"
    /\ mutex_lock(modelsMutex)
    /\ modelsMutex' = t
    /\ threads' = [threads EXCEPT ![t].pc = "find"]
    /\ UNCHANGED registryVars
    /\ UNCHANGED nonThreadVars

\* registerModel: `if (models.find(name) != models.end()) return false;`
registerModel_find(t) ==
    /\ threads[t].pc = "find"
    /\ threads[t].op = "registerModel"
    /\ threads' = IF threads[t].name \in DOMAIN models
                  THEN [threads EXCEPT ![t].pc = "unlock", ![t].ok = FALSE]
                  ELSE [threads EXCEPT ![t].pc = "insert"]
    /\ UNCHANGED <<modelsMutex, registryVars>>
    /\ UNCHANGED nonThreadVars

\* registerModel: `models[name] = model; return true;`
registerModel_insert(t) ==
    /\ threads[t].pc = "insert"
    /\ models' = Assign(models, threads[t].name, threads[t].model)
    /\ threads' = [threads EXCEPT ![t].pc = "unlock", ![t].ok = TRUE]
    /\ UNCHANGED <<modelsMutex, firstReg, rcalls, rlast>>
    /\ UNCHANGED nonThreadVars

\* getModel: find, then `return it->second;` or `return nullptr;`
getModel_find(t) ==
    /\ threads[t].pc = "find"
    /\ threads[t].op = "getModel"
    /\ threads' = [threads EXCEPT ![t].pc = "unlock",
                                  ![t].ret = AIModelManager_getModel(models, threads[t].name).ret]
    /\ UNCHANGED <<modelsMutex, registryVars>>
    /\ UNCHANGED nonThreadVars

\* The destructor of the lock_guard, as the call returns.
lock_guard_release(t) ==
    /\ threads[t].pc = "unlock"
    /\ modelsMutex' = NoThread
    /\ threads' = [threads EXCEPT ![t].pc = "done"]
    /\ UNCHANGED registryVars
    /\ UNCHANGED nonThreadVars

ThreadsNext ==
    \E t \in Threads :
        \/ ThreadCall(t)
        \/ lock_guard(t)
        \/ registerModel_find(t)
        \/ registerModel_insert(t)
        \/ getModel_find(t)
        \/ lock_guard_release(t)

\* ---------------------------------------------------------- specifications
Init ==
    /\ EngineInit
    /\ RegistryInit
    /\ tg = TerrainIdle
    /\ mg = ModelGenIdle
    /\ clast = CApiIdle
    /\ mat = MaterialIdle
    /\ gui = DefaultScene
    /\ gcalls = 0
    /\ glast = GuiIdle
    /\ modelsMutex = NoThread
    /\ threads = [t \in Threads |-> IdleThread]

Next ==
    \/ \E enableAI \in BOOLEAN : initialize(enableAI)
    \/ shutdown
    \/ isInitialized
    \/ isAIEnabled
    \/ \E enableAI \in BOOLEAN : StellAI_Initialize(enableAI)
    \/ StellAI_Shutdown
    \/ StellAI_IsAvailable
    \/ StellAI_IsAIEnabled

Spec == Init /\ [][Next]_vars

SpecRegistry == Init /\ [][RegistryNext]_vars

SpecTerrain == Init /\ [][TerrainNext]_vars

SpecModelGen == Init /\ [][ModelGenNext]_vars

SpecCApi == Init /\ [][CApiNext]_vars

SpecMaterial == Init /\ [][MaterialNext]_vars

SpecGui == Init /\ [][GuiNext]_vars

SpecThreads == Init /\ [][ThreadsNext]_vars

\* ------------------------------------------------------------------ claims
InitializeOps == {"initialize", "StellAI_Initialize"}
ShutdownOps == {"shutdown", "StellAI_Shutdown"}

\* C1: initialize(enableAI) on an engine that is not initialized returns true,
\* and afterwards isInitialized() is true and isAIEnabled() equals enableAI.
C1_InitializeSucceeds ==
    (last.op \in InitializeOps /\ ~last.pre.initialized) =>
        /\ last.ret = TRUE
        /\ Engine_isInitialized(engine) = TRUE
        /\ Engine_isAIEnabled(engine) = last.arg

\* A first initialize(false) after a shutdown of an engine that had AI enabled.
C1_Witness ==
    /\ last.op = "initialize"
    /\ ~last.pre.initialized
    /\ last.pre.aiEnabled = TRUE
    /\ last.arg = FALSE
    /\ last.ret = TRUE

\* C2: initialize on an already initialized engine returns false and changes
\* nothing: the engine's fields (initialized, aiEnabled, the components) and
\* the free store are as before the call, whatever enableAI it passes.
C2_InitializeTwiceRejected ==
    (last.op \in InitializeOps /\ last.pre.initialized) =>
        /\ last.ret = FALSE
        /\ engine = last.pre
        /\ heap = last.preHeap
        /\ engine.initialized = TRUE
        /\ engine.aiEnabled = last.pre.aiEnabled

\* A second initialize passing the opposite enableAI.
C2_Witness ==
    /\ last.op = "initialize"
    /\ last.pre.initialized
    /\ last.arg /= last.pre.aiEnabled
    /\ last.ret = FALSE

\* C3: shutdown leaves the engine uninitialized; a shutdown of an
\* uninitialized engine changes nothing; no component is deleted twice and
\* never more components are deleted than initialize allocated; after a
\* shutdown everything allocated has been deleted; and an initialize that
\* follows a shutdown returns true.
C3_ShutdownLifecycle ==
    /\ last.op \in ShutdownOps => ~engine.initialized
    /\ (last.op \in ShutdownOps /\ ~last.pre.initialized) =>
            (engine = last.pre /\ heap = last.preHeap)
    /\ ~heap.badDelete
    /\ heap.deletes <= heap.news
    /\ ~engine.initialized => (heap.live = {} /\ heap.deletes = heap.news)
    /\ (last.op \in InitializeOps /\ last.prevOp \in ShutdownOps) => last.ret = TRUE

\* initialize, shutdown, shutdown again, initialize: the second shutdown sees
\* an uninitialized engine and the initialize after it succeeds.
C3_Witness ==
    /\ last.op = "initialize"
    /\ last.prevOp = "shutdown"
    /\ last.ret = TRUE
    /\ heap.news = 6
    /\ heap.deletes = 3

\* C4: StellAI_IsAvailable() returns true exactly when the engine is
\* initialized (false before StellAI_Initialize and after StellAI_Shutdown).
C4_IsAvailableIffInitialized ==
    last.op = "StellAI_IsAvailable" => (last.ret = engine.initialized)

\* The C string an array holds: the characters before its first NUL.
HasNUL(mem) == \E i \in 1 .. Len(mem) : mem[i] = NUL

CStringOf(mem) ==
    LET n == CHOOSE i \in 1 .. Len(mem) : mem[i] = NUL /\ \A j \in 1 .. i - 1 : mem[j] /= NUL
    IN  SubSeq(mem, 1, n - 1)

\* C5: StellAI_GetVersion(buffer, bufferSize) returns false and leaves the
\* buffer as it was when buffer is NULL or bufferSize <= 0; otherwise it
\* returns true, stores nothing outside the buffer, and the buffer holds a
\* NUL-terminated string: the first min(5, bufferSize - 1) characters of
\* "0.1.0".
C5_GetVersion ==
    clast.op = "StellAI_GetVersion" =>
        LET b == clast.args[1]
            out == clast.out
            n == IF b.size - 1 < 5 THEN b.size - 1 ELSE 5
        IN  IF b.ptr = NULL \/ b.size <= 0
            THEN out.ret = FALSE /\ out.dest = b.ptr
            ELSE /\ out.ret = TRUE
                 /\ ~out.oob
                 /\ HasNUL(out.dest[1])
                 /\ CStringOf(out.dest[1]) = SubSeq(<<"0", ".", "1", ".", "0">>, 1, n)
                 /\ b.size >= 6 => CStringOf(out.dest[1]) = <<"0", ".", "1", ".", "0">>

\* A 7-character array announced as 3: "0." and the terminator, the rest of
\* the array untouched.
C5_Witness ==
    /\ clast.op = "StellAI_GetVersion"
    /\ clast.args[1].size = 3
    /\ clast.out.ret = TRUE
    /\ clast.out.dest = Ptr(<<"0", ".", NUL, "?", "?", "?", "?">>)

\* C6: a call of the C interface that lacks a required argument returns its
\* failure value, calls no generator and stores nothing to an output buffer:
\* StellAI_GenerateTerrain(NULL) and StellAI_GenerateModelFromText with NULL
\* params or prompt return NULL, StellAI_ApplyBiomes with NULL terrain or
\* name returns false, StellAI_GenerateShader and StellAI_OptimizeShader
\* return false when params, effect, a source, an output buffer is NULL or a
\* buffer size is <= 0.
C6_MissingArgumentRejected ==
    LET a == clast.args
        out == clast.out
    IN  /\ (clast.op = "StellAI_GenerateTerrain" /\ a[1] = NULL) =>
                (out.ret = NULL /\ out.invoked = <<>>)
        /\ (clast.op = "StellAI_GenerateModelFromText"
                /\ (a[1] = NULL \/ a[1][1].prompt = NULL)) =>
                (out.ret = NULL /\ out.invoked = <<>>)
        /\ (clast.op = "StellAI_ApplyBiomes" /\ (a[1] = NULL \/ a[2] = NULL)) =>
                (out.ret = FALSE /\ out.invoked = <<>>)
        /\ (clast.op = "StellAI_GenerateShader"
                /\ (\/ a[1] = NULL \/ a[1][1].effect = NULL
                    \/ a[2].ptr = NULL \/ a[3].ptr = NULL
                    \/ a[2].size <= 0 \/ a[3].size <= 0)) =>
                /\ out.ret = FALSE
                /\ out.invoked = <<>>
                /\ out.vertexOut = a[2].ptr
                /\ out.fragmentOut = a[3].ptr
        /\ (clast.op = "StellAI_OptimizeShader"
                /\ (\/ a[1] = NULL \/ a[2] = NULL
                    \/ a[3].ptr = NULL \/ a[4].ptr = NULL
                    \/ a[3].size <= 0 \/ a[4].size <= 0)) =>
                /\ out.ret = FALSE
                /\ out.invoked = <<>>
                /\ out.vertexOut = a[3].ptr
                /\ out.fragmentOut = a[4].ptr

\* StellAI_GenerateShader with everything in place but a fragment buffer
\* size of 0: false, and the good vertex buffer is as the caller passed it.
C6_Witness ==
    /\ clast.op = "StellAI_GenerateShader"
    /\ clast.args[1] /= NULL
    /\ clast.args[1][1].effect = Ptr(<<"i", "c", "e">>)
    /\ clast.args[2] = [ptr |-> Ptr(Buffer(5)), size |-> 5]
    /\ clast.args[3].ptr /= NULL
    /\ clast.args[3].size = 0
    /\ clast.out.ret = FALSE
    /\ clast.out.vertexOut = Ptr(Buffer(5))

\* C7: registerModel(name, model) returns true iff no entry is registered
\* under name when it is called; when it returns false the registry is
\* unchanged, and when it returns true only the entry of name is added.
C7_RegisterModelIffAbsent ==
    rlast.op = "registerModel" =>
        /\ rlast.ret = (rlast.name \notin DOMAIN rlast.pre)
        /\ rlast.ret = FALSE => models = rlast.pre
        /\ rlast.ret = TRUE =>
            /\ DOMAIN models = DOMAIN rlast.pre \cup {rlast.name}
            /\ models[rlast.name] = rlast.model
            /\ \A n \in DOMAIN rlast.pre : models[n] = rlast.pre[n]

\* A registerModel for a taken name, with another model, while a second name
\* is registered as well.
C7_Witness ==
    /\ rlast.op = "registerModel"
    /\ rlast.ret = FALSE
    /\ rlast.name \in DOMAIN rlast.pre
    /\ rlast.pre[rlast.name] /= rlast.model
    /\ Cardinality(DOMAIN models) = 2

\* C8: getModel(name) returns the model of the first registerModel call for
\* name, or nullptr if there was none; getModel leaves the registry as it
\* was; and a name once registered stays registered with that first model.
C8_GetModelReturnsFirstRegistered ==
    /\ rlast.op = "getModel" =>
        /\ rlast.ret = (IF firstReg[rlast.name] = Never THEN nullptr
                        ELSE firstReg[rlast.name])
        /\ models = rlast.pre
    /\ \A n \in Names :
        IF firstReg[n] = Never
        THEN n \notin DOMAIN models
        ELSE n \in DOMAIN models /\ models[n] = firstReg[n]

\* getModel right after a registerModel for its name that was turned down:
\* it returns the model registered first, not the one just offered.
C8_Witness ==
    /\ rlast.op = "getModel"
    /\ rlast.prev.op = "registerModel"
    /\ rlast.prev.name = rlast.name
    /\ rlast.prev.ret = FALSE
    /\ rlast.prev.model /= rlast.ret
    /\ rlast.ret /= nullptr

\* C9: generateTerrain returns, for every params value, when every
\* allocation succeeds, a model with exactly one mesh of 10000 vertices and
\* 99*99*6 = 58806 indices; every store of the index loop is to an element
\* below numIndices and stores a value in [0, numVertices); and the loop
\* ends with indexCount equal to numIndices.
C9_TerrainGrid ==
    /\ \A i \in 1 .. Len(tg.written) :
        /\ 0 <= tg.written[i].pos /\ tg.written[i].pos < tg.numIndices
        /\ 0 <= tg.written[i].val /\ tg.written[i].val < tg.numVertices
    /\ tg.pc = "indices" => tg.indexCount <= tg.numIndices
    /\ tg.pc = "done" =>
        IF tg.allocated
        THEN /\ tg.result /= NULL
             /\ tg.result[1].meshCount = 1
             /\ Len(tg.result[1].meshes) = 1
             /\ tg.result[1].meshes[1].numVertices = 10000
             /\ tg.result[1].meshes[1].numIndices = 58806
             /\ tg.indexCount = tg.result[1].meshes[1].numIndices
        ELSE tg.result = NULL

\* The call has returned a model after the last quad, (98, 98), stored the
\* largest vertex index in the last element of the index array.
C9_Witness ==
    /\ tg.pc = "done"
    /\ tg.result /= NULL
    /\ tg.params[1].seed = 42
    /\ tg.written[6].pos = 58805
    /\ tg.written[3].val = 9999

\* The call the results of all others are compared with.
ReferenceParams ==
    [prompt |-> <<>>, complexity |-> 0, resolution |-> 1, texturing |-> FALSE,
     size |-> <<1, 1, 1>>]

\* The cube: one mesh of 8 vertices and 36 indices, every index in 0..7, the
\* vertex and index data those of the reference call; the path that of a
\* call with the same prompt and the reference's other fields.
IsFixedCube(result, params) ==
    /\ result /= NULL
    /\ result[1].meshCount = 1
    /\ Len(result[1].meshes) = 1
    /\ LET mesh == result[1].meshes[1]
           ref == ModelGenerator_generateFromText(ReferenceParams, TRUE, TRUE, TRUE, TRUE)
           samePrompt == ModelGenerator_generateFromText(
                            [ReferenceParams EXCEPT !.prompt = params.prompt],
                            TRUE, TRUE, TRUE, TRUE)
       IN  /\ mesh.numVertices = 8
           /\ mesh.numIndices = 36
           /\ Len(mesh.vertices) = 8
           /\ Len(mesh.indices) = 36
           /\ \A i \in 1 .. 36 : mesh.indices[i] \in 0 .. 7
           /\ \A i \in 1 .. 8 : \A k \in 1 .. 3 : mesh.vertices[i].position[k] \in {-1, 1}
           /\ mesh = ref[1].meshes[1]
           /\ result[1].path = samePrompt[1].path

\* C10 as stated: generateFromText returns the fixed cube for every params
\* value.
C10_AlwaysCube ==
    mg.op = "generateFromText" => IsFixedCube(mg.result, mg.params[1])

\* C10 amended: when every allocation succeeds generateFromText returns the
\* fixed cube, whose mesh does not depend on params and whose path depends on
\* the prompt alone; when an allocation fails it returns nullptr.
C10_CubeWhenAllocated ==
    mg.op = "generateFromText" =>
        IF mg.allocated
        THEN IsFixedCube(mg.result, mg.params[1])
        ELSE mg.result = NULL

\* A successful call whose params differ from the reference in every field,
\* with a prompt that is cut and has special characters replaced.
C10_Witness ==
    /\ mg.op = "generateFromText"
    /\ mg.allocated
    /\ mg.result /= NULL
    /\ Len(mg.params[1].prompt) = 24
    /\ mg.params[1].complexity = 1
    /\ mg.params[1].resolution = 64
    /\ mg.params[1].texturing
    /\ mg.params[1].size = <<2, 3, 4>>
    /\ Len(mg.result[1].path) = 39
    /\ mg.result[1].path[20] = "_"

\* C11: material generation yields the stock material: with materialCount > 0
\* ModelGenerator::generateMaterial and StellAI_GenerateMaterial (also with a
\* NULL model or description) return materials[0]; with materialCount == 0
\* the result is the all-zero material.
C11_StockMaterial ==
    mat.op /= "none" =>
        IF materialCount(mat.materials) > 0
        THEN mat.ret = mat.materials[1]
        ELSE mat.ret = ZeroMaterial

\* The calls of an event are additions only.
OnlyAdds(trace) ==
    /\ trace /= <<>>
    /\ \A i \in 1 .. Len(trace) : trace[i] = "addObjectWithAction"

\* C12: the scene-object table has a fixed capacity: after every object
\* addition and removal of the GUI 0 <= objectManager.count <= MAX_OBJECTS
\* (and count objects are live), and an addition attempted while the table is
\* full adds nothing and leaves the existing objects as they were.
C12_FixedCapacity ==
    [][/\ gui.objectManager.count \in 0 .. MAX_OBJECTS
       /\ gui'.objectManager.count \in 0 .. MAX_OBJECTS
       /\ Len(gui'.objectManager.objects) = gui'.objectManager.count
       /\ (gui.objectManager.count = MAX_OBJECTS /\ gcalls' /= gcalls /\ OnlyAdds(gui'.trace))
            => gui'.objectManager = gui.objectManager]_vars

\* The plane of a full scene is selected, copied and pasted: the paste calls
\* addObjectWithAction, and the table still ends with the cubes that filled it.
C12_Witness ==
    /\ glast.op = "menu_paste"
    /\ gui.trace = <<"addObjectWithAction">>
    /\ gui.clipboard_object = Ptr("OBJ_PLANE")
    /\ gui.objectManager.count = MAX_OBJECTS
    /\ gui.objectManager.objects[MAX_OBJECTS] = "OBJ_CUBE"
    /\ Len(gui.history) = MAX_OBJECTS - 4

Recorded == {"addObjectWithAction", "removeObjectWithAction"}

\* The calls an event made, as a set.
CallsOf(trace) == {trace[i] : i \in 1 .. Len(trace)}

C14_CtrlPCreatesPointLight ==
    [][(/\ gcalls' /= gcalls
        /\ glast' = [op |-> "key_callback", args |-> <<FALSE, "P", "PRESS", {"CONTROL"}>>]
        /\ ~gui.isRunning
        /\ Len(gui.lights) < MaxLights)
            => gui'.lights = Append(gui.lights, "LIGHT_POINT")]_vars

\* The registerModel calls for name that have returned true, or false.
Winners(name) ==
    {t \in Threads : /\ threads[t].op = "registerModel"
                     /\ threads[t].name = name
                     /\ threads[t].pc \in {"unlock", "done"}
                     /\ threads[t].ok}

Losers(name) ==
    {t \in Threads : /\ threads[t].op = "registerModel"
                     /\ threads[t].name = name
                     /\ threads[t].pc \in {"unlock", "done"}
                     /\ ~threads[t].ok}

Registering(name) ==
    {t \in Threads : threads[t].op = "registerModel" /\ threads[t].name = name}

\* C15: under every interleaving of concurrent registerModel and getModel
\* calls the registry behaves as if they ran one at a time: of the
\* registerModel calls for one name at most one returns true, and exactly one
\* once they have all returned (one of them has the map's entry already when
\* another returns false); a getModel for that name returns nullptr or the
\* model of the call that returned true.
C15_OneAtATime ==
    \A name \in Names :
        /\ Cardinality(Winners(name)) <= 1
        /\ Losers(name) /= {} => Cardinality(Winners(name)) = 1
        /\ (Registering(name) /= {} /\ \A t \in Registering(name) : threads[t].pc = "done")
                => Cardinality(Winners(name)) = 1
        /\ \A t \in Winners(name) : name \in DOMAIN models /\ models[name] = threads[t].model
        /\ \A t \in Threads :
            (threads[t].op = "getModel" /\ threads[t].name = name
                    /\ threads[t].pc \in {"unlock", "done"}) =>
                \/ threads[t].ret = nullptr
                \/ \E w \in Winners(name) : threads[t].ret = threads[w].model

\* Three calls for "biome" that overlap: thread 2 has registered model 2,
\* thread 1 holds the mutex and is about to return false for model 1, and
\* thread 3's getModel waits for the mutex.
C15_Witness ==
    /\ \A t \in Threads : threads[t].name = "biome"
    /\ threads[2].op = "registerModel" /\ threads[2].model = 2
    /\ threads[2].pc = "done" /\ threads[2].ok
    /\ threads[1].op = "registerModel" /\ threads[1].model = 1
    /\ threads[1].pc = "unlock" /\ ~threads[1].ok
    /\ modelsMutex = 1
    /\ threads[3].op = "getModel" /\ threads[3].pc = "lock"
    /\ models["biome"] = 2
====
